---- MODULE Spec2Model ----
(***************************************************************************)
(* Hackathon & Contest Tracker (src/main.py): the persisted Unstop         *)
(* snapshot (CSV_FILE), the Codeforces short-TTL cache (CODEFORCES_CACHE), *)
(* the startup hook, the daily cron job and the /api/all query.            *)
(*                                                                         *)
(* Time is counted in minutes (UTC).  Threads: the startup hook runs on    *)
(* the main thread before the server accepts requests; the cron job runs   *)
(* on the BackgroundScheduler's worker thread; each request of a sync      *)
(* route runs on a thread of the server's pool, so requests interleave     *)
(* with each other and with the cron job at every access to shared state.  *)
(***************************************************************************)
EXTENDS Integers, Sequences, FiniteSets, TLC

VARIABLES
    now,        \* wall clock, minutes UTC
    csv,        \* CSV_FILE on disk: whether it exists, and its lines
    cfSource,   \* state of the Codeforces API: "down" or the list it serves
    ccFile,     \* codechef_contests.json: "absent", "malformed" or "ok"
    cache,      \* CODEFORCES_CACHE: [data, time]
    mainPc,     \* position of the startup hook / server
    nextFire,   \* next run time of the cron job; None until scheduler.start()
    job,        \* per refresh thread: position and locals of fetch_and_save_unstop_hackathons
    req,        \* per request thread: position and locals of get_all
    hist,       \* history (not program state): what the claims need to remember
    trial       \* one call of a function on its own: its arguments and its result

vars == <<now, csv, cfSource, ccFile, cache, mainPc, nextFire, job, req, hist, trial>>

(***************************************************************************)
(* Bounds of the model                                                     *)
(***************************************************************************)
Pages == 1              \* pages fetched per status by a refresh
TickMinutes == 5        \* the clock advances in steps of this many minutes
MaxTicks == 3           \* the clock stops after this many steps
StartMinute == 1400     \* process start, minutes UTC (23:20 UTC = 04:50 IST)
TrialMax == 3           \* the last instant of a call of a function on its own
MaxDepth == 3           \* lists and dicts are nested up to this depth

(***************************************************************************)
(* Program constants                                                       *)
(***************************************************************************)
CACHE_TTL == 10                      \* timedelta(minutes=10)
CronHour == 5                        \* CronTrigger(hour=5, ...)
CronMinute == 0                      \* CronTrigger(..., minute=0)
TzOffsetMinutes == 330               \* timezone="Asia/Kolkata", UTC+05:30

MinutesPerDay == 24 * 60
Horizon == MaxTicks * TickMinutes

\* None where an instant is expected (every instant is >= 0).
None == 0 - 1

\* CSV_FILE: whether it exists and, if so, its lines.
Absent == [exists |-> FALSE, lines |-> <<>>]
File(lines) == [exists |-> TRUE, lines |-> lines]

Requests == {"r1", "r2"}       \* two threads of the server's pool
Jobs == {"startup", "cron"}

Min(a, b) == IF a < b THEN a ELSE b

\* The cron instant, minutes after midnight UTC.
CronUtcMinute == (CronHour * 60 + CronMinute - TzOffsetMinutes) % MinutesPerDay

\* CronTrigger.get_next_fire_time: the first 05:00 IST strictly after t.
NextCronAfter(t) ==
    LET today == (t \div MinutesPerDay) * MinutesPerDay + CronUtcMinute
    IN  IF today > t THEN today ELSE today + MinutesPerDay

\* The calendar day of instant t in the scheduler's timezone.
LocalDay(t) == (t + TzOffsetMinutes) \div MinutesPerDay

\* c.get(k, default)
Get(c, k, default) == IF k \in DOMAIN c THEN c[k] ELSE default

(***************************************************************************)
(* Date strings.  A date string is modelled by its format and the instant  *)
(* it denotes: "YmdHM" is "YYYY-MM-DD HH:MM", "YmdHMS" is                  *)
(* "YYYY-MM-DD HH:MM:SS", "isoT" is "YYYY-MM-DDTHH:MM:SS", "isoTz" is an   *)
(* ISO string with a zone offset, "" is the empty string.                  *)
(***************************************************************************)
DateStr(fmt, t) == [fmt |-> fmt, t |-> t]
EmptyStr == [fmt |-> "", t |-> 0]

\* A link: the site's prefix and what follows it.
Url(base, path) == [base |-> base, path |-> path]
EmptyUrl == [base |-> "", path |-> ""]

\* str(id) of a contest id
IdStr(id) == CASE id = 42 -> "42" [] id = 43 -> "43" [] OTHER -> "0"

\* datetime.strptime(date_str, "%Y-%m-%d %H:%M"), None on any exception
parse_datetime_safe(date_str) ==
    IF date_str.fmt = "YmdHM" THEN date_str.t ELSE None

\* str.replace("T", " ")
ReplaceT(s) == IF s.fmt = "isoT" THEN DateStr("YmdHMS", s.t) ELSE s

(***************************************************************************)
(* Upstream data                                                           *)
(***************************************************************************)
Statuses == <<"open", "expired">>

\* One item of the Unstop search result for (status, page).
UnstopTitles == <<"Hack A", "Hack B", "Hack C", "Hack D">>

UnstopItem(status, page) ==
    [title      |-> UnstopTitles[page],
     start_date |-> DateStr("isoTz", StartMinute),
     end_date   |-> DateStr("isoTz", StartMinute + MinutesPerDay),
     seo_url    |-> Url("https://unstop.com/", UnstopTitles[page])]

\* The requests of one refresh, in the order the loops issue them.
RECURSIVE PageKeys(_, _)
PageKeys(status, page) ==
    IF page > Pages THEN <<>> ELSE <<<<status, page>>>> \o PageKeys(status, page + 1)

RequestKeys == PageKeys(Statuses[1], 1) \o PageKeys(Statuses[2], 1)

\* What the Codeforces API serves in each of its states.
CfSourceStates == {"down", "v1", "v2"}

CfResult(s) ==
    CASE s = "v1" -> << [name |-> "Div 2", id |-> 42, phase |-> "BEFORE",
                         startTimeSeconds |-> (StartMinute + 30) * 60 + 20,
                         durationSeconds |-> 7200] >>
      [] s = "v2" -> << [name |-> "Div 1", id |-> 43, phase |-> "CODING",
                         startTimeSeconds |-> (StartMinute - 60) * 60] >>
      [] OTHER    -> <<>>

\* The document in codechef_contests.json when it is well formed.
CodechefData ==
    [future_contests |-> << [contest_name |-> "Starters 200", contest_code |-> "START200",
                             contest_start_date_iso |-> DateStr("isoT", StartMinute + 600),
                             contest_end_date_iso |-> DateStr("isoT", StartMinute + 720)] >>,
     past_contests   |-> << [contest_name |-> "Starters 100", contest_code |-> "START100",
                             contest_start_date_iso |-> DateStr("isoT", StartMinute - 720),
                             contest_end_date_iso |-> DateStr("isoT", StartMinute - 600)] >>]

CcFileStates == {"absent", "malformed", "ok"}

(***************************************************************************)
(* An operation either returns a value or raises.                          *)
(***************************************************************************)
Return(v) == [raised |-> FALSE, value |-> v, error |-> ""]
Raise(e) == [raised |-> TRUE, value |-> <<>>, error |-> e]

(***************************************************************************)
(* Unstop snapshot: fetch_and_save_unstop_hackathons, load_hackathons_df,  *)
(* get_hackathons                                                          *)
(***************************************************************************)
\* Lines of the file that are not rows: the header naming the five columns,
\* the blank header of a frame without columns, and a run of NUL bytes.
HeaderLine == [line |-> "Title,Start Date,End Date,Apply Link,Status"]
BlankLine == [line |-> ""]
NulLine == [line |-> "NUL"]

\* The hackathons list after the request loops, when exactly the requests
\* in ok succeed (a failing request is skipped by `continue`).
RECURSIVE Scraped(_, _)
Scraped(keys, ok) ==
    IF keys = <<>> THEN <<>>
    ELSE LET k == Head(keys)
             item == UnstopItem(k[1], k[2])
             row == [Title      |-> Get(item, "title", ""),
                     StartDate  |-> Get(item, "start_date", EmptyStr),
                     EndDate    |-> Get(item, "end_date", EmptyStr),
                     ApplyLink  |-> Get(item, "seo_url", EmptyUrl),
                     Status     |-> k[1]]
         IN  (IF k \in ok THEN <<row>> ELSE <<>>) \o Scraped(Tail(keys), ok)

\* pd.DataFrame(hackathons).to_csv(index=False): the lines written.  A frame
\* built from an empty list has no columns, so its header is a blank line.
ToCsvLines(hackathons) ==
    IF hackathons = <<>> THEN <<BlankLine>> ELSE <<HeaderLine>> \o hackathons

\* Writing line i of an open file at the writer's own offset.
WriteAt(f, i, line) ==
    [k \in 1 .. (IF Len(f) > i THEN Len(f) ELSE i) |->
        IF k = i THEN line ELSE IF k <= Len(f) THEN f[k] ELSE NulLine]

\* pd.read_csv(CSV_FILE).fillna(""): raises EmptyDataError when the file has
\* no header line to take columns from; otherwise the rows below the header.
ReadCsv(lines) ==
    IF lines = <<>> \/ lines[1] # HeaderLine THEN Raise("EmptyDataError")
    ELSE Return(Tail(lines))

load_hackathons_df(f) ==
    IF f.exists THEN ReadCsv(f.lines) ELSE Return(<<>>)

HackathonRecord(row) ==
    [title      |-> Get(row, "Title", ""),
     platform   |-> "Unstop",
     start_date |-> Get(row, "StartDate", EmptyStr),
     end_date   |-> Get(row, "EndDate", EmptyStr),
     apply_link |-> Get(row, "ApplyLink", EmptyUrl),
     category   |-> "hackathon",
     status     |-> Get(row, "Status", "")]

get_hackathons(f) ==
    LET df == load_hackathons_df(f)
    IN  IF df.raised THEN df
        ELSE Return([i \in 1 .. Len(df.value) |-> HackathonRecord(df.value[i])])

(***************************************************************************)
(* Codeforces: fetch_codeforces_contests                                   *)
(***************************************************************************)
CodeforcesRecord(c) ==
    LET start == c.startTimeSeconds
        end == start + Get(c, "durationSeconds", 0)
    IN  [title      |-> c.name,
         platform   |-> "Codeforces",
         start_date |-> DateStr("YmdHM", start \div 60),
         end_date   |-> DateStr("YmdHM", end \div 60),
         apply_link |-> Url("https://codeforces.com/contest/", IdStr(c.id)),
         category   |-> "contest",
         phase      |-> Get(c, "phase", "")]

\* Any exception of the request is caught and leaves contests empty.
fetch_codeforces_contests(source) ==
    LET data == CfResult(source)
    IN  [i \in 1 .. Len(data) |-> CodeforcesRecord(data[i])]

\* Variant: an entry exactly CACHE_TTL old still counts as fresh.
CacheFreshInclusive(c, t) == c.time # None /\ t - c.time <= CACHE_TTL

\* now - CODEFORCES_CACHE["time"] < CACHE_TTL, for a cache that has a time
CacheFresh(c, t) == c.time # None /\ t - c.time < CACHE_TTL

(***************************************************************************)
(* CodeChef: fetch_codechef_contests                                       *)
(***************************************************************************)
CodechefRecord(c) ==
    [title      |-> Get(c, "contest_name", ""),
     platform   |-> "CodeChef",
     start_date |-> ReplaceT(Get(c, "contest_start_date_iso", EmptyStr)),
     end_date   |-> ReplaceT(Get(c, "contest_end_date_iso", EmptyStr)),
     apply_link |-> Url("https://www.codechef.com/", Get(c, "contest_code", "")),
     category   |-> "contest"]

fetch_codechef_contests(file) ==
    CASE file = "absent"    -> Return(<<>>)
      [] file = "malformed" -> Raise("JSONDecodeError")
      [] OTHER ->
           LET data == CodechefData
               cs == Get(data, "future_contests", <<>>) \o Get(data, "past_contests", <<>>)
           IN  Return([i \in 1 .. Len(cs) |-> CodechefRecord(cs[i])])

(***************************************************************************)
(* filter_by_status, sanitize_json                                         *)
(***************************************************************************)
\* Variant: the phase is compared as it was reported.
UpperAsReported(s) == s

\* str.upper() on the spellings of a phase
Upper(s) ==
    CASE s = "coding" -> "CODING"
      [] s = "Coding" -> "CODING"
      [] OTHER -> s

\* Variant: hackathons are classified by their dates, as contests are.
StatusMatchesByDates(c, status, t) ==
    LET start == parse_datetime_safe(Get(c, "start_date", EmptyStr))
        end == parse_datetime_safe(Get(c, "end_date", EmptyStr))
        phase == Upper(Get(c, "phase", ""))
    IN  \/ status = "upcoming" /\ start # None /\ start > t
        \/ status = "live" /\ (\/ start # None /\ end # None /\ start <= t /\ t <= end
                               \/ phase = "CODING")
        \/ status = "past" /\ end # None /\ end < t

\* Variant: a contest that starts at this very instant is still upcoming.
StatusMatchesFromStart(c, status, t) ==
    IF c.category = "hackathon"
    THEN \/ status = "live" /\ c.status = "open"
         \/ status = "past" /\ c.status = "expired"
    ELSE LET start == parse_datetime_safe(Get(c, "start_date", EmptyStr))
             end == parse_datetime_safe(Get(c, "end_date", EmptyStr))
             phase == Upper(Get(c, "phase", ""))
         IN  \/ status = "upcoming" /\ start # None /\ start >= t
             \/ status = "live" /\ (\/ start # None /\ end # None /\ start <= t /\ t <= end
                                    \/ phase = "CODING")
             \/ status = "past" /\ end # None /\ end < t

\* The test of one record in the loop of filter_by_status
StatusMatches(c, status, t) ==
    IF c.category = "hackathon"
    THEN \/ status = "live" /\ c.status = "open"
         \/ status = "past" /\ c.status = "expired"
    ELSE LET start == parse_datetime_safe(Get(c, "start_date", EmptyStr))
             end == parse_datetime_safe(Get(c, "end_date", EmptyStr))
             phase == Upper(Get(c, "phase", ""))
         IN  \/ status = "upcoming" /\ start # None /\ start > t
             \/ status = "live" /\ (\/ start # None /\ end # None /\ start <= t /\ t <= end
                                    \/ phase = "CODING")
             \/ status = "past" /\ end # None /\ end < t

\* t is datetime.utcnow(), read once per call.
filter_by_status(items, status, t) ==
    SelectSeq(items, LAMBDA c : StatusMatches(c, status, t))

\* JSON values as Python holds them: each carries its type.  A float is one
\* of Floats; the three that are not finite are those math.isnan and
\* math.isinf recognise.
Floats == {"nan", "inf", "-inf", "1.5"}

JStr(s) == [ty |-> "str", s |-> s]
JInt(n) == [ty |-> "int", n |-> n]
JFloat(f) == [ty |-> "float", f |-> f]
JList(xs) == [ty |-> "list", xs |-> xs]
JDict(kv) == [ty |-> "dict", kv |-> kv]

isnan(f) == f = "nan"
isinf(f) == f \in {"inf", "-inf"}

\* Variant: only not-a-number is replaced.
RECURSIVE SanitizeNanOnly(_)
SanitizeNanOnly(data) ==
    IF data.ty = "float" THEN (IF isnan(data.f) THEN JStr("") ELSE data)
    ELSE IF data.ty = "dict"
    THEN JDict([k \in DOMAIN data.kv |-> SanitizeNanOnly(data.kv[k])])
    ELSE IF data.ty = "list"
    THEN JList([i \in 1 .. Len(data.xs) |-> SanitizeNanOnly(data.xs[i])])
    ELSE data

\* sanitize_json: the tests are made in the order of the code.
RECURSIVE sanitize_json(_)
sanitize_json(data) ==
    IF data.ty = "float" THEN (IF isnan(data.f) \/ isinf(data.f) THEN JStr("") ELSE data)
    ELSE IF data.ty = "dict"
    THEN JDict([k \in DOMAIN data.kv |-> sanitize_json(data.kv[k])])
    ELSE IF data.ty = "list"
    THEN JList([i \in 1 .. Len(data.xs) |-> sanitize_json(data.xs[i])])
    ELSE data

\* all_items as a JSON value: a list of dicts, of which every value is a str
\* (titles, dates and links; the Status column and the phase).
ToJson(items) ==
    JList([i \in 1 .. Len(items) |->
               JDict([k \in DOMAIN items[i] |-> JStr(items[i][k])])])

\* The records of a JSON list of dicts of str.
FromJson(v) ==
    [i \in 1 .. Len(v.xs) |-> [k \in DOMAIN v.xs[i].kv |-> v.xs[i].kv[k].s]]

(***************************************************************************)
(* State                                                                   *)
(***************************************************************************)
IdleJob == [pc |-> "idle", hackathons |-> <<>>, written |-> 0, failed |-> FALSE]

TypeParams == {"", "hackathon", "contest", "bogus"}
StatusParams == {"", "upcoming", "live", "past", "bogus"}
Params == TypeParams \X StatusParams

\* out[<<type, status>>] is what get_all(type, status) returns: the request's
\* parameters enter only its last, local step, so one run of the handler
\* stands for the request with each value of them.
IdleRequest ==
    [pc |-> "idle", all_items |-> <<>>, tnow |-> None, data |-> <<>>,
     seen |-> Absent, torn |-> FALSE, out |-> [p \in Params |-> <<>>]]

\* The snapshot a previous run of the process left in CSV_FILE.
EarlierSnapshot == File(ToCsvLines(Scraped(RequestKeys, {RequestKeys[1]})))

NoStamp == [by |-> "", at |-> None]

\* No function is being tried on its own.
NoTrial == [done |-> FALSE]

\* The process starts at instant start, with CSV_FILE one of files and the
\* sources in one of the given states.
InitWith(start, files, sources, ccfiles) ==
    /\ trial = NoTrial
    /\ now = start
    /\ csv \in files
    /\ cfSource \in sources
    /\ ccFile \in ccfiles
    /\ cache = [data |-> <<>>, time |-> None]
    /\ mainPc = "startup"
    /\ nextFire = None
    /\ job = [j \in Jobs |-> IdleJob]
    /\ req = [q \in Requests |-> IdleRequest]
    /\ hist = [start |-> start, cold |-> FALSE, replacedDays |-> <<>>, lastGood |-> <<>>,
               dataBy |-> NoStamp, timeBy |-> NoStamp,
               prevFile |-> Absent, lastAllFailed |-> FALSE]

(***************************************************************************)
(* Environment: the clock, the Codeforces API, the /tmp directory          *)
(***************************************************************************)
\* Time passes.  A running scheduler wakes at the job's next run time, so the
\* clock does not step over it.
Tick ==
    /\ now + TickMinutes <= hist.start + Horizon
    /\ nextFire = None \/ nextFire > now
    /\ now' = IF nextFire # None THEN Min(now + TickMinutes, nextFire)
                                 ELSE now + TickMinutes
    /\ UNCHANGED <<csv, cfSource, ccFile, cache, mainPc, nextFire, job, req, hist, trial>>

\* The Codeforces API goes down, comes back, or serves another list.
SetCfSource ==
    /\ \E s \in CfSourceStates \ {cfSource} : cfSource' = s
    /\ UNCHANGED <<now, csv, ccFile, cache, mainPc, nextFire, job, req, hist, trial>>

\* CSV_FILE lives in /tmp: the system may remove it while nobody writes it.
DeleteSnapshot ==
    /\ mainPc = "serving"
    /\ csv.exists
    /\ \A j \in Jobs : job[j].pc = "idle"
    /\ csv' = Absent
    /\ UNCHANGED <<now, cfSource, ccFile, cache, mainPc, nextFire, job, req, hist, trial>>

(***************************************************************************)
(* fetch_and_save_unstop_hackathons, run by daily_scrape_job on thread j   *)
(***************************************************************************)
\* The two request loops: each request succeeds or fails on its own.
JobFetch(j) ==
    /\ job[j].pc = "fetch"
    /\ \E ok \in SUBSET {RequestKeys[i] : i \in 1 .. Len(RequestKeys)} :
          job' = [job EXCEPT ![j] = [pc |-> "open", hackathons |-> Scraped(RequestKeys, ok),
                                     written |-> 0, failed |-> (ok = {})]]
    /\ UNCHANGED <<now, csv, cfSource, ccFile, cache, mainPc, nextFire, req, hist, trial>>

\* to_csv opens csv_path for writing: the file exists and is empty.
JobOpen(j) ==
    /\ job[j].pc = "open"
    /\ csv' = File(<<>>)
    /\ job' = [job EXCEPT ![j].pc = "write"]
    /\ hist' = [hist EXCEPT !.prevFile = csv]
    /\ UNCHANGED <<now, cfSource, ccFile, cache, mainPc, nextFire, req, trial>>

\* to_csv writes the next line; after the last one it closes the file and
\* fetch_and_save_unstop_hackathons returns.  How much of the buffered output
\* is in the file at a given moment is not determined: line by line, every
\* prefix of it is a state of the file.
JobWrite(j) ==
    /\ job[j].pc = "write"
    /\ LET lines == ToCsvLines(job[j].hackathons)
           i == job[j].written + 1
       IN  /\ csv' = File(WriteAt(csv.lines, i, lines[i]))
           /\ IF i < Len(lines)
              THEN /\ job' = [job EXCEPT ![j].written = i]
                   /\ hist' = hist
              ELSE /\ job' = [job EXCEPT ![j] = IdleJob]
                   /\ hist' = [hist EXCEPT
                                 !.replacedDays = Append(@, LocalDay(now)),
                                 !.lastAllFailed = job[j].failed]
    /\ UNCHANGED <<now, cfSource, ccFile, cache, mainPc, nextFire, req, trial>>

(***************************************************************************)
(* startup, scheduler                                                      *)
(***************************************************************************)
\* Variant: startup starts the scheduler first and leaves the cold-start
\* refresh to a thread of its own.
StartupCheckSchedulerFirst ==
    /\ mainPc = "startup"
    /\ IF ~csv.exists
       THEN /\ job' = [job EXCEPT !["startup"].pc = "fetch"]
            /\ hist' = [hist EXCEPT !.cold = TRUE]
       ELSE UNCHANGED <<job, hist>>
    /\ nextFire' = NextCronAfter(now)
    /\ mainPc' = "serving"
    /\ UNCHANGED <<now, csv, cfSource, ccFile, cache, req, trial>>

\* if not os.path.exists(CSV_FILE): daily_scrape_job()
StartupCheck ==
    /\ mainPc = "startup"
    /\ IF ~csv.exists
       THEN /\ job' = [job EXCEPT !["startup"].pc = "fetch"]
            /\ mainPc' = "refreshing"
            /\ hist' = [hist EXCEPT !.cold = TRUE]
       ELSE /\ mainPc' = "start_scheduler"
            /\ UNCHANGED <<job, hist>>
    /\ UNCHANGED <<now, csv, cfSource, ccFile, cache, nextFire, req, trial>>

\* Variant: startup goes on without waiting for daily_scrape_job to return.
StartupReturnNoWait ==
    /\ mainPc = "refreshing"
    /\ mainPc' = "start_scheduler"
    /\ UNCHANGED <<now, csv, cfSource, ccFile, cache, nextFire, job, req, hist, trial>>

\* daily_scrape_job() returns to startup
StartupReturn ==
    /\ mainPc = "refreshing"
    /\ job["startup"].pc = "idle"
    /\ mainPc' = "start_scheduler"
    /\ UNCHANGED <<now, csv, cfSource, ccFile, cache, nextFire, job, req, hist, trial>>

\* scheduler.start(): the job's next run time is computed; startup returns
\* and the server begins to accept requests.
SchedulerStart ==
    /\ mainPc = "start_scheduler"
    /\ nextFire' = NextCronAfter(now)
    /\ mainPc' = "serving"
    /\ UNCHANGED <<now, csv, cfSource, ccFile, cache, job, req, hist, trial>>

\* The cron trigger fires.  The scheduler runs at most one instance of a job
\* (max_instances defaults to 1): a run that is due while the previous one is
\* still going is skipped.
CronFire ==
    /\ nextFire # None
    /\ now = nextFire
    /\ nextFire' = NextCronAfter(now)
    /\ job' = IF job["cron"].pc = "idle"
              THEN [job EXCEPT !["cron"].pc = "fetch"]
              ELSE job
    /\ UNCHANGED <<now, csv, cfSource, ccFile, cache, mainPc, req, hist, trial>>

(***************************************************************************)
(* get_all, run for one request on thread q                                *)
(***************************************************************************)
\* Variant: the call is made outside a try block, so what it raises leaves
\* get_all.
AfterTryUncaught(r, next) == IF r.raised THEN "error" ELSE next

\* try: all_items += f() / except Exception: print(...) - where the handler
\* goes on after f returned or raised.
AfterTry(r, next) == next

\* What the try block adds to all_items.
Added(r) == IF r.raised THEN <<>> ELSE r.value

\* History: thread j is writing CSV_FILE, which holds neither what it held
\* before j opened it nor all of what j writes.
MidWrite(j) ==
    /\ job[j].pc = "write"
    /\ csv # hist.prevFile
    /\ csv # File(ToCsvLines(job[j].hackathons))

\* Variant: a request that finds no snapshot file scrapes and saves one itself.
ReadSnapshotRefreshing(q) ==
    /\ mainPc = "serving"
    /\ req[q].pc = "idle"
    /\ \E ok \in SUBSET {RequestKeys[i] : i \in 1 .. Len(RequestKeys)} :
          LET f == IF csv.exists THEN csv ELSE File(ToCsvLines(Scraped(RequestKeys, ok)))
              r == get_hackathons(f)
          IN  /\ csv' = f
              /\ req' = [req EXCEPT ![q] = [IdleRequest EXCEPT
                              !.pc = "cf_now",
                              !.all_items = Added(r),
                              !.seen = csv]]
    /\ UNCHANGED <<now, cfSource, ccFile, cache, mainPc, nextFire, job, hist, trial>>

\* all_items += get_hackathons(): one read of CSV_FILE.  The server accepts
\* requests once startup has returned.
ReadSnapshot(q) ==
    /\ mainPc = "serving"
    /\ req[q].pc = "idle"
    /\ LET r == get_hackathons(csv)
       IN  req' = [req EXCEPT ![q] = [IdleRequest EXCEPT
                       !.pc = AfterTry(r, "cf_now"),
                       !.all_items = Added(r),
                       !.seen = csv,
                       !.torn = \E j \in Jobs : MidWrite(j)]]
    /\ UNCHANGED <<now, csv, cfSource, ccFile, cache, mainPc, nextFire, job, hist, trial>>

\* get_codeforces_cached: now = datetime.utcnow()
CacheNow(q) ==
    /\ req[q].pc = "cf_now"
    /\ req' = [req EXCEPT ![q].tnow = now, ![q].pc = "cf_check"]
    /\ UNCHANGED <<now, csv, cfSource, ccFile, cache, mainPc, nextFire, job, hist, trial>>

\* The test of the cache's time against the request's now.  The time, once
\* set, is never None again, so the two reads of it count as one.
CacheCheck(q) ==
    /\ req[q].pc = "cf_check"
    /\ req' = [req EXCEPT ![q].pc = IF CacheFresh(cache, req[q].tnow)
                                     THEN "cf_hit" ELSE "cf_fetch"]
    /\ UNCHANGED <<now, csv, cfSource, ccFile, cache, mainPc, nextFire, job, hist, trial>>

\* return CODEFORCES_CACHE["data"]; the function's locals are gone
CacheHit(q) ==
    /\ req[q].pc = "cf_hit"
    /\ req' = [req EXCEPT ![q].data = cache.data,
                          ![q].tnow = None,
                          ![q].all_items = @ \o cache.data,
                          ![q].pc = AfterTry(Return(cache.data), "cc")]
    /\ UNCHANGED <<now, csv, cfSource, ccFile, cache, mainPc, nextFire, job, hist, trial>>

\* data = fetch_codeforces_contests()
CacheFetch(q) ==
    /\ req[q].pc = "cf_fetch"
    /\ req' = [req EXCEPT ![q].data = fetch_codeforces_contests(cfSource),
                          ![q].pc = "cf_set_data"]
    /\ UNCHANGED <<now, csv, cfSource, ccFile, cache, mainPc, nextFire, job, hist, trial>>

\* Variant: the fetched list is returned to the caller but not kept.
CacheSetDataSkipped(q) ==
    /\ req[q].pc = "cf_set_data"
    /\ req' = [req EXCEPT ![q].pc = "cf_set_time"]
    /\ hist' = [hist EXCEPT !.dataBy = [by |-> q, at |-> req[q].tnow]]
    /\ UNCHANGED <<now, csv, cfSource, ccFile, cache, mainPc, nextFire, job, trial>>

\* CODEFORCES_CACHE["data"] = data
CacheSetData(q) ==
    /\ req[q].pc = "cf_set_data"
    /\ cache' = [cache EXCEPT !.data = req[q].data]
    /\ req' = [req EXCEPT ![q].pc = "cf_set_time"]
    /\ hist' = [hist EXCEPT
                  !.dataBy = [by |-> q, at |-> req[q].tnow],
                  !.lastGood = IF req[q].data # <<>> THEN req[q].data ELSE @]
    /\ UNCHANGED <<now, csv, cfSource, ccFile, mainPc, nextFire, job, trial>>

\* CODEFORCES_CACHE["time"] = now; return data
CacheSetTime(q) ==
    /\ req[q].pc = "cf_set_time"
    /\ cache' = [cache EXCEPT !.time = req[q].tnow]
    /\ req' = [req EXCEPT ![q].all_items = @ \o req[q].data,
                          ![q].tnow = None,
                          ![q].pc = AfterTry(Return(req[q].data), "cc")]
    /\ hist' = [hist EXCEPT !.timeBy = [by |-> q, at |-> req[q].tnow]]
    /\ UNCHANGED <<now, csv, cfSource, ccFile, mainPc, nextFire, job, trial>>

\* Variant: a type that names no category is taken as no filter.
FilterTypeKnown(items, type) ==
    IF type \in {"hackathon", "contest"}
    THEN SelectSeq(items, LAMBDA c : c.category = type) ELSE items

\* if type: all_items = [c for c in all_items if c["category"] == type]
FilterType(items, type) ==
    IF type # "" THEN SelectSeq(items, LAMBDA c : c.category = type) ELSE items

\* if status: all_items = filter_by_status(all_items, status)
FilterStatus(items, status, t) ==
    IF status # "" THEN filter_by_status(items, status, t) ELSE items

\* The end of get_all once the three sources are merged; t is utcnow().
get_all_tail(items, type, status, t) ==
    FromJson(sanitize_json(ToJson(FilterStatus(FilterType(items, type), status, t))))

\* all_items += fetch_codechef_contests(); the two filters; the response
Respond(q) ==
    /\ req[q].pc = "cc"
    /\ LET r == fetch_codechef_contests(ccFile)
           items == req[q].all_items \o Added(r)
       IN  req' = [req EXCEPT ![q].all_items = items,
                              ![q].out = [p \in Params |-> get_all_tail(items, p[1], p[2], now)],
                              ![q].pc = AfterTry(r, "done")]
    /\ UNCHANGED <<now, csv, cfSource, ccFile, cache, mainPc, nextFire, job, hist, trial>>

\* The response has been sent; the thread is free for the next request.
Finish(q) ==
    /\ req[q].pc \in {"done", "error"}
    /\ req' = [req EXCEPT ![q] = IdleRequest]
    /\ UNCHANGED <<now, csv, cfSource, ccFile, cache, mainPc, nextFire, job, hist, trial>>

(***************************************************************************)
(* Specification                                                           *)
(***************************************************************************)
\* The snapshot side: a process that starts shortly before the cron instant,
\* with or without a snapshot; the refreshes of startup and of the cron job,
\* and one request thread.
InitRefresh ==
    InitWith(StartMinute, {Absent, EarlierSnapshot}, {"v1"}, {"ok"})

NextRefresh ==
    \/ Tick
    \/ StartupCheck
    \/ StartupReturn
    \/ SchedulerStart
    \/ CronFire
    \/ \E j \in Jobs : JobFetch(j)
    \/ \E j \in Jobs : JobOpen(j)
    \/ \E j \in Jobs : JobWrite(j)
    \/ ReadSnapshot("r1")
    \/ CacheNow("r1")
    \/ CacheCheck("r1")
    \/ CacheHit("r1")
    \/ CacheFetch("r1")
    \/ CacheSetData("r1")
    \/ CacheSetTime("r1")
    \/ Respond("r1")
    \/ Finish("r1")

SpecRefresh == InitRefresh /\ [][NextRefresh]_vars

\* The cache side: a process that starts with a snapshot just after the cron
\* instant of the day, so that no refresh runs; two request threads, and a
\* Codeforces API that changes state.
InitCache ==
    InitWith(NextCronAfter(StartMinute), {EarlierSnapshot}, CfSourceStates, {"absent"})

NextCache ==
    \/ Tick
    \/ SetCfSource
    \/ StartupCheck
    \/ SchedulerStart
    \/ \E q \in Requests : ReadSnapshot(q)
    \/ \E q \in Requests : CacheNow(q)
    \/ \E q \in Requests : CacheCheck(q)
    \/ \E q \in Requests : CacheHit(q)
    \/ \E q \in Requests : CacheFetch(q)
    \/ \E q \in Requests : CacheSetData(q)
    \/ \E q \in Requests : CacheSetTime(q)
    \/ \E q \in Requests : Respond(q)
    \/ \E q \in Requests : Finish(q)

SpecCache == InitCache /\ [][NextCache]_vars

\* The query side: a process that starts just after the cron instant with a
\* snapshot file that is well formed, blank (the whole of a refresh failed) or
\* empty (a refresh was cut short); every state of the two other sources; one
\* request thread.
InitQuery ==
    InitWith(NextCronAfter(StartMinute),
             {EarlierSnapshot, File(ToCsvLines(<<>>)), File(<<>>)},
             CfSourceStates, CcFileStates)

NextQuery ==
    \/ Tick
    \/ SetCfSource
    \/ DeleteSnapshot
    \/ StartupCheck
    \/ SchedulerStart
    \/ ReadSnapshot("r1")
    \/ CacheNow("r1")
    \/ CacheCheck("r1")
    \/ CacheHit("r1")
    \/ CacheFetch("r1")
    \/ CacheSetData("r1")
    \/ CacheSetTime("r1")
    \/ Respond("r1")
    \/ Finish("r1")

SpecQuery == InitQuery /\ [][NextQuery]_vars

\* Two calls in a row: thread r2 serves any number of requests while the
\* clock and the sources change; then thread r1 serves one request and r2 the
\* next one, with the clock and the sources at rest from the start of the
\* first to the end of the second.  The response of the first stays in
\* req["r1"] to be compared.
InitTwice ==
    InitWith(NextCronAfter(StartMinute), {EarlierSnapshot, File(<<>>)},
             CfSourceStates, CcFileStates)

NextTwice ==
    \/ req["r1"].pc = "idle" /\ Tick
    \/ req["r1"].pc = "idle" /\ SetCfSource
    \/ req["r1"].pc = "idle" /\ DeleteSnapshot
    \/ StartupCheck
    \/ SchedulerStart
    \/ req["r2"].pc = "idle" /\ ReadSnapshot("r1")
    \/ CacheNow("r1")
    \/ CacheCheck("r1")
    \/ CacheHit("r1")
    \/ CacheFetch("r1")
    \/ CacheSetData("r1")
    \/ CacheSetTime("r1")
    \/ Respond("r1")
    \/ req["r1"].pc \in {"idle", "done"} /\ ReadSnapshot("r2")
    \/ CacheNow("r2")
    \/ CacheCheck("r2")
    \/ CacheHit("r2")
    \/ CacheFetch("r2")
    \/ CacheSetData("r2")
    \/ CacheSetTime("r2")
    \/ Respond("r2")
    \/ req["r1"].pc = "idle" /\ Finish("r2")

SpecTwice == InitTwice /\ [][NextTwice]_vars

(***************************************************************************)
(* filter_by_status on its own: one call on one record                     *)
(***************************************************************************)
\* The instants 0 .. TrialMax stand for now and for the dates of the records.
TrialTimes == 0 .. TrialMax

\* A process that is serving, with one function about to be called.
InitTrial(trials, instants) ==
    /\ trial \in trials
    /\ now \in instants
    /\ csv = Absent
    /\ cfSource = "down"
    /\ ccFile = "absent"
    /\ cache = [data |-> <<>>, time |-> None]
    /\ mainPc = "serving"
    /\ nextFire = None
    /\ job = [j \in Jobs |-> IdleJob]
    /\ req = [q \in Requests |-> IdleRequest]
    /\ hist = [start |-> 0, cold |-> FALSE, replacedDays |-> <<>>, lastGood |-> <<>>,
               dataBy |-> NoStamp, timeBy |-> NoStamp,
               prevFile |-> Absent, lastAllFailed |-> FALSE]

\* Rows of the snapshot: a status the scraper writes or none, dates in the
\* form Unstop serves them, in the form the classifier parses, or missing.
TrialRows ==
    {[Title |-> "Hack A", StartDate |-> sd, EndDate |-> ed,
      ApplyLink |-> Url("https://unstop.com/", "Hack A"), Status |-> st] :
        sd \in {EmptyStr} \cup {DateStr(f, t) : f \in {"isoTz", "YmdHM"}, t \in TrialTimes},
        ed \in {DateStr("YmdHM", t) : t \in {0, TrialMax}},
        st \in {"open", "expired", ""}}

\* Entries of the Codeforces contest list: every phase, every start, a
\* duration or none.
TrialPhases == {"BEFORE", "CODING", "coding", "Coding", "FINISHED"}

TrialCfEntries ==
    {[name |-> "Div 2", id |-> 42, phase |-> ph, startTimeSeconds |-> st * 60 + 20,
      durationSeconds |-> d * 60] : ph \in TrialPhases, st \in TrialTimes, d \in TrialTimes}
    \cup {[name |-> "Div 1", id |-> 43, phase |-> ph, startTimeSeconds |-> st * 60] :
            ph \in TrialPhases, st \in TrialTimes}

\* Entries of codechef_contests.json: ISO dates, or the keys missing.
TrialCcEntries ==
    {[contest_name |-> "Starters 200", contest_code |-> "START200",
      contest_start_date_iso |-> DateStr("isoT", st),
      contest_end_date_iso |-> DateStr("isoT", en)] : st \in TrialTimes, en \in TrialTimes}
    \cup {[contest_name |-> "Starters 100", contest_code |-> "START100"]}

\* Contest records of any other make: each date parseable, unparseable, empty
\* or missing, an end before the start included; a phase or none.
TrialDates ==
    {EmptyStr} \cup {DateStr(f, t) : f \in {"YmdHM", "YmdHMS"}, t \in TrialTimes}

TrialOtherRecords ==
    {[title |-> "Round", category |-> "contest", start_date |-> sd, end_date |-> ed,
      phase |-> ph] : sd \in TrialDates, ed \in TrialDates, ph \in TrialPhases}
    \cup {[title |-> "Round", category |-> "contest", start_date |-> sd, end_date |-> ed] :
            sd \in TrialDates, ed \in TrialDates}
    \cup {[title |-> "Round", category |-> "contest", phase |-> ph] : ph \in TrialPhases}

\* The records filter_by_status is tried on: what the three adapters make of
\* their entries, and the other contest records.
TrialRecords ==
    {HackathonRecord(row) : row \in TrialRows}
    \cup {CodeforcesRecord(c) : c \in TrialCfEntries}
    \cup {CodechefRecord(c) : c \in TrialCcEntries}
    \cup TrialOtherRecords

FilterTrials ==
    {[done |-> FALSE, items |-> <<c>>, result |-> [s \in StatusParams |-> <<>>]] :
        c \in TrialRecords}

\* One call of the status filter of get_all for each value of status; the
\* call reads the clock.
ApplyFilter ==
    /\ ~trial.done
    /\ trial' = [trial EXCEPT !.done = TRUE,
                              !.result = [s \in StatusParams |->
                                             FilterStatus(trial.items, s, now)]]
    /\ UNCHANGED <<now, csv, cfSource, ccFile, cache, mainPc, nextFire, job, req, hist>>

InitFilter == InitTrial(FilterTrials, TrialTimes)

NextFilter == ApplyFilter

SpecFilter == InitFilter /\ [][NextFilter]_vars

(***************************************************************************)
(* sanitize_json on its own: one call on one JSON value                    *)
(***************************************************************************)
\* Values that are neither list nor dict: a str, an int, the floats.
Leaves == {JStr("Hack A"), JInt(42)} \cup {JFloat(f) : f \in Floats}

\* The lists and dicts that hold value v, alone or beside a float.
Holding(v) ==
    {JList(<<v>>), JList(<<JFloat("nan"), v>>),
     JDict([title |-> v]), JDict([title |-> v, prize |-> JFloat("-inf")])}

\* The values nested up to depth d.
RECURSIVE JsonValues(_)
JsonValues(d) ==
    IF d = 0 THEN Leaves
    ELSE LET inner == JsonValues(d - 1)
         IN  inner \cup {JList(<<>>)} \cup UNION {Holding(v) : v \in inner}

SanitizeTrials ==
    {[done |-> FALSE, input |-> v, output |-> JList(<<>>)] : v \in JsonValues(MaxDepth)}

\* One call of sanitize_json.
ApplySanitize ==
    /\ ~trial.done
    /\ trial' = [trial EXCEPT !.done = TRUE, !.output = sanitize_json(trial.input)]
    /\ UNCHANGED <<now, csv, cfSource, ccFile, cache, mainPc, nextFire, job, req, hist>>

InitSanitize == InitTrial(SanitizeTrials, {0})

NextSanitize == ApplySanitize

SpecSanitize == InitSanitize /\ [][NextSanitize]_vars

(***************************************************************************)
(* Claims                                                                  *)
(***************************************************************************)
\* The step taken is a step of the request on thread q.
RequestStep(q) == req'[q] # req[q]

\* C1: once a non-empty fetch result has been stored in the cache, a request
\* whose refresh attempt fails (the fetch returns nothing) leaves the cached
\* data as it was, the last non-empty result stored, and so returns it.
C1_KeepsLastKnownGood ==
    \A q \in Requests :
        (req[q].pc = "cf_set_time" /\ req[q].data = <<>> /\ hist.lastGood # <<>>)
            => cache.data = hist.lastGood

\* C2: a request that reads CSV_FILE reads the whole of the snapshot held
\* before a refresh or the whole of the one the refresh writes, never an
\* empty or partly written file.
C2_ReadersSeeWholeSnapshots ==
    \A q \in Requests : req[q].pc = "cf_now" => ~req[q].torn

\* C3: whenever a request is about to test the cache, the cache's data and
\* time were written by the same fetch.
C3_SlotReplacedAsUnit ==
    \A q \in Requests : req[q].pc = "cf_check" => hist.dataBy = hist.timeBy

\* C4: the refresh started by startup and the refresh started by the cron
\* trigger are never in progress at the same time.
C4_RefreshesExclusive ==
    ~(job["startup"].pc # "idle" /\ job["cron"].pc # "idle")

C4_Witness ==
    /\ hist.cold
    /\ Len(hist.replacedDays) = 1
    /\ job["cron"].pc = "write"

\* C5: no calendar day (of the scheduler's timezone) holds two completed
\* replacements of the snapshot.
C5_OncePerDay ==
    \A i, k \in 1 .. Len(hist.replacedDays) :
        i # k => hist.replacedDays[i] # hist.replacedDays[k]

\* C6: when the process started without a snapshot file, then until the
\* cold-start refresh has completed the scheduler is not started and no
\* request is being served.
C6_ColdStartFirst ==
    (hist.cold /\ hist.replacedDays = <<>>)
        => (nextFire = None /\ \A q \in Requests : req[q].pc = "idle")

C6_Witness ==
    /\ hist.cold
    /\ hist.replacedDays # <<>>
    /\ nextFire # None
    /\ req["r1"].pc = "done"

\* C7: no step of a request changes CSV_FILE, and a request that finds the
\* file absent takes no hackathon record from it.
C7_QueryLeavesSnapshot ==
    [][\A q \in Requests :
          RequestStep(q) =>
              /\ csv' = csv
              /\ (req[q].pc = "idle" /\ ~csv.exists) => req'[q].all_items = <<>>]_vars

C7_Witness ==
    /\ req["r1"].pc = "done"
    /\ ~req["r1"].seen.exists
    /\ ~csv.exists
    /\ \A i \in 1 .. Len(req["r1"].out[<<"", "">>]) :
          req["r1"].out[<<"", "">>][i].category # "hackathon"

\* C8: a request that tests a cache whose time is less than CACHE_TTL before
\* the request's now goes on to return the cached data without calling the
\* source, whatever the source's state; one that tests a cache CACHE_TTL old
\* or older, or never filled, calls the source; and the request that returns
\* the cached data returns exactly it.
C8_HitWithinTtl ==
    [][\A q \in Requests :
          /\ (RequestStep(q) /\ req[q].pc = "cf_check") =>
                 IF cache.time # None /\ req[q].tnow - cache.time < CACHE_TTL
                 THEN req'[q].pc = "cf_hit"
                 ELSE req'[q].pc = "cf_fetch"
          /\ (RequestStep(q) /\ req[q].pc = "cf_hit") =>
                 /\ req'[q].pc = "cc"
                 /\ req'[q].all_items = req[q].all_items \o cache.data
          /\ (RequestStep(q) /\ req'[q].pc = "cf_set_data") => req[q].pc = "cf_fetch"]_vars

C8_Witness ==
    /\ req["r1"].pc = "cf_hit"
    /\ req["r1"].tnow - cache.time = TickMinutes
    /\ cache.data # <<>>
    /\ cfSource = "down"

\* C9: no request ends in an error; the unfiltered response is the records
\* of the snapshot (none if reading it failed), then those of the Codeforces
\* cache, then those of the CodeChef file (none if reading it failed), and
\* the response to any type and status is made of records of that list.
C9_QueryNeverFails ==
    \A q \in Requests :
        /\ req[q].pc # "error"
        /\ req[q].pc = "done" =>
              /\ req[q].out[<<"", "">>] =
                     Added(get_hackathons(req[q].seen)) \o req[q].data
                         \o Added(fetch_codechef_contests(ccFile))
              /\ \A p \in Params : \A i \in 1 .. Len(req[q].out[p]) :
                     \E k \in 1 .. Len(req[q].all_items) :
                         req[q].out[p][i] = req[q].all_items[k]

C9_Witness ==
    /\ req["r1"].pc = "done"
    /\ get_hackathons(req["r1"].seen).raised
    /\ ccFile = "malformed"
    /\ req["r1"].data # <<>>
    /\ req["r1"].out[<<"contest", "">>] = req["r1"].data

\* C10: after a refresh all of whose requests failed, made while a snapshot
\* with records existed, a request that reads the file gets the hackathon
\* records of that earlier snapshot.
C10_FailedRefreshKeepsSnapshot ==
    \A q \in Requests :
        (/\ req[q].pc = "cf_now"
         /\ req[q].seen = csv
         /\ \A j \in Jobs : job[j].pc = "idle"
         /\ hist.lastAllFailed
         /\ Added(get_hackathons(hist.prevFile)) # <<>>)
            => req[q].all_items = Added(get_hackathons(hist.prevFile))

\* The record of a call of filter_by_status on its own, and what the call
\* returned for the three status values.
TrialRecord == trial.items[1]

Returned(status) == trial.result[status] = <<TrialRecord>>

NotReturned(status) == trial.result[status] = <<>>

\* The string under key k is of the form "YYYY-MM-DD HH:MM".
HasMinuteForm(c, k) == k \in DOMAIN c /\ c[k].fmt = "YmdHM"

\* The phase of the record is a spelling of CODING.
IsCoding(c) == "phase" \in DOMAIN c /\ c.phase \in {"CODING", "coding", "Coding"}

\* C11: a snapshot contest normalized by fetch_codechef_contests from ISO
\* dates has dates that parse_datetime_safe parses; it is returned by
\* status=upcoming when its start is after now and by status=past when its
\* end is before now.
C11_SnapshotDatesClassified ==
    (trial.done /\ Get(TrialRecord, "platform", "") = "CodeChef"
                /\ TrialRecord.start_date # EmptyStr) =>
        /\ parse_datetime_safe(TrialRecord.start_date) # None
        /\ parse_datetime_safe(TrialRecord.end_date) # None
        /\ TrialRecord.start_date.t > now => Returned("upcoming")
        /\ TrialRecord.end_date.t < now => Returned("past")

\* C12: a hackathon record is returned for status=live iff its status is
\* "open", for status=past iff its status is "expired", never for
\* status=upcoming, whatever its dates are.
C12_HackathonByStatusHint ==
    (trial.done /\ TrialRecord.category = "hackathon") =>
        /\ IF TrialRecord.status = "open" THEN Returned("live") ELSE NotReturned("live")
        /\ IF TrialRecord.status = "expired" THEN Returned("past") ELSE NotReturned("past")
        /\ NotReturned("upcoming")

\* An open hackathon whose parseable start is still ahead is returned as live.
C12_Witness ==
    /\ trial.done
    /\ TrialRecord.category = "hackathon"
    /\ TrialRecord.status = "open"
    /\ HasMinuteForm(TrialRecord, "start_date")
    /\ TrialRecord.start_date.t > now
    /\ Returned("live")

\* C13: a contest record whose phase is CODING in any letter case is
\* returned by status=live for every now and every start and end date.
C13_PhaseOverride ==
    (trial.done /\ TrialRecord.category = "contest" /\ IsCoding(TrialRecord)) =>
        Returned("live")

\* A contest in phase "coding" whose window ended before now is live.
C13_Witness ==
    /\ trial.done
    /\ TrialRecord.category = "contest"
    /\ Get(TrialRecord, "phase", "") = "coding"
    /\ HasMinuteForm(TrialRecord, "end_date")
    /\ TrialRecord.end_date.t < now
    /\ Returned("live")

\* C14: a contest record whose phase is not CODING is returned for
\* status=upcoming iff its start parses and is after now, for status=live iff
\* both dates parse and start <= now <= end, for status=past iff its end
\* parses and is before now; without a status filter it is always returned.
C14_DateWindow ==
    (trial.done /\ TrialRecord.category = "contest" /\ ~IsCoding(TrialRecord)) =>
        LET c == TrialRecord
            s == HasMinuteForm(c, "start_date")
            e == HasMinuteForm(c, "end_date")
        IN  /\ IF s /\ c.start_date.t > now THEN Returned("upcoming") ELSE NotReturned("upcoming")
            /\ IF s /\ e /\ c.start_date.t <= now /\ now <= c.end_date.t
               THEN Returned("live") ELSE NotReturned("live")
            /\ IF e /\ c.end_date.t < now THEN Returned("past") ELSE NotReturned("past")
            /\ Returned("")

\* A contest that starts at this very instant and has an end that does not
\* parse is in the unfiltered output and in none of the three buckets.
C14_Witness ==
    /\ trial.done
    /\ TrialRecord.category = "contest"
    /\ ~IsCoding(TrialRecord)
    /\ HasMinuteForm(TrialRecord, "start_date")
    /\ TrialRecord.start_date.t = now
    /\ "end_date" \in DOMAIN TrialRecord
    /\ TrialRecord.end_date.fmt = "YmdHMS"
    /\ Returned("")
    /\ NotReturned("upcoming") /\ NotReturned("live") /\ NotReturned("past")

\* C19: for every record and every now, at most one of status=upcoming,
\* status=live and status=past returns the record.
C19_BucketsExclusive ==
    trial.done =>
        /\ ~(Returned("upcoming") /\ Returned("live"))
        /\ ~(Returned("upcoming") /\ Returned("past"))
        /\ ~(Returned("live") /\ Returned("past"))

\* The place of a record's source in the merged list.
SourceRank(c) ==
    CASE c.platform = "Unstop" -> 1
      [] c.platform = "Codeforces" -> 2
      [] OTHER -> 3

\* Sequence a is b with some of its elements left out.
RECURSIVE IsSubseq(_, _)
IsSubseq(a, b) ==
    IF a = <<>> THEN TRUE
    ELSE IF b = <<>> THEN FALSE
    ELSE IF Head(a) = Head(b) THEN IsSubseq(Tail(a), Tail(b))
    ELSE IsSubseq(a, Tail(b))

\* C15: the unfiltered response lists the hackathons, then the Codeforces
\* contests, then the CodeChef contests, each group in the order of its
\* source; with a type the response is exactly the records of that category,
\* in order; with a status it is a subsequence of the merged records.
C15_OrderAndCategory ==
    \A q \in Requests :
        req[q].pc = "done" =>
            LET all == req[q].out[<<"", "">>]
                From(pf) == SelectSeq(all, LAMBDA c : c.platform = pf)
            IN  /\ \A i, k \in 1 .. Len(all) : i < k => SourceRank(all[i]) <= SourceRank(all[k])
                /\ From("Unstop") = Added(get_hackathons(req[q].seen))
                /\ From("Codeforces") = req[q].data
                /\ From("CodeChef") = Added(fetch_codechef_contests(ccFile))
                /\ \A type \in TypeParams \ {""} :
                       req[q].out[<<type, "">>] = SelectSeq(all, LAMBDA c : c.category = type)
                /\ \A p \in Params : IsSubseq(req[q].out[p], req[q].out[<<p[1], "">>])

\* A response made of the three sources, of which status=live keeps two
\* records and type=bogus none.
C15_Witness ==
    /\ req["r1"].pc = "done"
    /\ Len(req["r1"].out[<<"", "">>]) >= 4
    /\ SourceRank(req["r1"].out[<<"", "">>][1]) = 1
    /\ Len(req["r1"].out[<<"", "live">>]) = 2
    /\ Len(req["r1"].out[<<"contest", "">>]) = 3
    /\ req["r1"].out[<<"bogus", "">>] = <<>>

\* C18: a fetch that failed (it returned no contest) replaces neither the
\* data nor the time of the Codeforces cache.
C18_FailedFetchKeepsCache ==
    [][\A q \in Requests :
          (RequestStep(q) /\ req[q].pc \in {"cf_set_data", "cf_set_time"}
               /\ req[q].data = <<>>)
              => cache' = cache]_vars

\* C16: of two calls of get_all in a row, with the clock and the sources at
\* rest, the second returns for every type and status the sequence the first
\* returned, whether the first was served from the Codeforces cache or not.
C16_SameResponseTwice ==
    (req["r1"].pc = "done" /\ req["r2"].pc = "done") => req["r2"].out = req["r1"].out

\* The first call found the cache stale, fetched and stored; the second was
\* served from the cache; both returned the contest fetched.
C16_Witness ==
    /\ req["r1"].pc = "done"
    /\ req["r2"].pc = "done"
    /\ hist.timeBy = [by |-> "r1", at |-> now]
    /\ req["r1"].data # <<>>
    /\ req["r2"].data = cache.data
    /\ req["r2"].out[<<"contest", "">>] # <<>>

\* Value v is, or holds at some depth of lists and dicts, a float that is
\* not a number or is infinite.
RECURSIVE HoldsNonFinite(_)
HoldsNonFinite(v) ==
    \/ v.ty = "float" /\ v.f \in {"nan", "inf", "-inf"}
    \/ v.ty = "list" /\ \E i \in 1 .. Len(v.xs) : HoldsNonFinite(v.xs[i])
    \/ v.ty = "dict" /\ \E k \in DOMAIN v.kv : HoldsNonFinite(v.kv[k])

\* Value out is value in with the empty string in the place of each such
\* float and nothing else changed.
RECURSIVE OnlyNonFiniteReplaced(_, _)
OnlyNonFiniteReplaced(in, out) ==
    IF in.ty = "float" /\ in.f \in {"nan", "inf", "-inf"} THEN out = JStr("")
    ELSE IF in.ty = "list"
    THEN /\ out.ty = "list"
         /\ Len(out.xs) = Len(in.xs)
         /\ \A i \in 1 .. Len(in.xs) : OnlyNonFiniteReplaced(in.xs[i], out.xs[i])
    ELSE IF in.ty = "dict"
    THEN /\ out.ty = "dict"
         /\ DOMAIN out.kv = DOMAIN in.kv
         /\ \A k \in DOMAIN in.kv : OnlyNonFiniteReplaced(in.kv[k], out.kv[k])
    ELSE out = in

\* C17: what sanitize_json returns holds no not-a-number and no infinite
\* float at any depth of lists and dicts; each of them is replaced by the
\* empty string and every other value is returned unchanged.
C17_NonFiniteReplaced ==
    trial.done =>
        /\ ~HoldsNonFinite(trial.output)
        /\ OnlyNonFiniteReplaced(trial.input, trial.output)

\* A list of a dict whose title is a list of not-a-number and an infinite
\* float: the call replaced both, two levels down, and kept the shape.
C17_Witness ==
    /\ trial.done
    /\ trial.input = JList(<<JDict([title |-> JList(<<JFloat("nan"), JFloat("inf")>>),
                                    prize |-> JFloat("-inf")])>>)
    /\ trial.output = JList(<<JDict([title |-> JList(<<JStr(""), JStr("")>>),
                                     prize |-> JStr("")])>>)

====
